---------------------------- MODULE Spec2Model ----------------------------
(***************************************************************************)
(* Model of _strlastchar_s_chk (src/src/extstr/strlastchar_s.c), the       *)
(* bounds-checked search for the last occurrence of a character.           *)
(*                                                                         *)
(* One call is a walk through the function body, one action per statement: *)
(* the precondition checks of lines 74-84, the scanning loop of lines      *)
(* 86-94 (one action per evaluation of the loop condition) and the result  *)
(* selection of lines 96-100.  A finished call may be repeated once with   *)
(* the same arguments and the output slot left as the first call wrote it. *)
(*                                                                         *)
(* A character is a small natural number, 0 being the terminator.  The     *)
(* object dest points to is the sequence `dest'; C index i is dest[i+1].   *)
(* A pointer into the object is its C index; NULL is the null pointer.     *)
(* Reading a position outside the object is undefined: the read yields     *)
(* any character.                                                          *)
(***************************************************************************)
EXTENDS Integers, Sequences, FiniteSets

\* ---- bounds of the model ----
MaxSize == 4   \* largest object dest may point to, in characters
MaxDmax == 5   \* largest declared maximum a caller passes

\* ---- program constants ----
NUL == 0            \* the terminator '\0' tested by `*dest' (line 86)
NULL == -1          \* the null pointer stored by `*lastp = NULL' (line 75)
BOS_UNKNOWN == -1   \* destbos when the object size is not known (line 79)
RSIZE_MAX_STR == 3  \* the ceiling on dmax (line 80), scaled down

Char == {NUL, 1, 2}   \* '\0', 'a', 'b'

\* ---- status codes (the error kinds of the interface) ----
EOK == "Success"
ESNOTFND == "NotFound"
ESNULLP_LASTP == "NullOutputPointer"
ESNULLP_DEST == "NullBufferPointer"
ESZEROL == "ZeroLength"
ESLEMAX == "LengthExceedsCeiling"
EBOUNDS == "BoundsViolation"
EOVERFLOW == "LengthExceedsAllocation"
PASS == "pass"    \* a check macro that falls through
NONE == "none"    \* no status returned yet

VARIABLES
    pc,         \* position in the function body
    dest,       \* the object the argument dest points to (<<>> when dest is NULL)
    destNull,   \* dest == NULL
    dmax0,      \* the argument dmax as passed
    dmax,       \* the parameter dmax, decremented by the loop
    c,          \* the character to locate
    lastpNull,  \* lastp == NULL
    slot,       \* *lastp: NULL or a C index into dest
    destbos,    \* BOS_UNKNOWN or the size of the object
    bnd,        \* pointer bounds information is available to BND_CHK_PTR_BOUNDS
    pos,        \* the parameter dest as an offset from its initial value
    ret,        \* the returned status, NONE while running
    reads,      \* C indices of dest read so far by this call
    iters,      \* loop bodies executed by this call
    callNo,     \* 0 before the first call, then 1, 2
    prev,       \* status and slot left by the first call
    slotIn,     \* the slot as the current call found it
    dest0       \* the object as the caller passed it to the first call

vars == <<pc, dest, destNull, dmax0, dmax, c, lastpNull, slot, destbos, bnd,
          pos, ret, reads, iters, callNo, prev, slotIn, dest0>>

\* What the function body never assigns: the other arguments and the
\* caller's records.
kept == <<destNull, dmax0, c, lastpNull, destbos, bnd, callNo, prev, slotIn, dest0>>

args == <<dest, destNull, dmax0, c, lastpNull, destbos, bnd>>

Buffers == UNION {[1..n -> Char] : n \in 1..MaxSize}

\* ---- the check macros (safeclib_private.h) ----
CHK_SRC_NULL(isNull) == IF isNull THEN ESNULLP_LASTP ELSE PASS

CHK_DEST_NULL(isNull) == IF isNull THEN ESNULLP_DEST ELSE PASS

CHK_DMAX_ZERO(n) == IF n = 0 THEN ESZEROL ELSE PASS

CHK_DMAX_MAX(n, max) == IF n > max THEN ESLEMAX ELSE PASS

BND_CHK_PTR_BOUNDS(known, size, n) == IF known /\ n > size THEN EBOUNDS ELSE PASS

CHK_DEST_OVR(n, bos) == IF n > bos THEN EOVERFLOW ELSE PASS

\* ---- memory ----
\* The values a read of dest[i] can yield.
Deref(i) == IF i >= 0 /\ i < Len(dest) THEN {dest[i + 1]} ELSE Char

Init ==
    /\ pc = "idle"
    /\ dest = <<>>
    /\ destNull = TRUE
    /\ dmax0 = 0
    /\ dmax = 0
    /\ c = NUL
    /\ lastpNull = TRUE
    /\ slot = NULL
    /\ destbos = BOS_UNKNOWN
    /\ bnd = FALSE
    /\ pos = 0
    /\ ret = NONE
    /\ reads = {}
    /\ iters = 0
    /\ callNo = 0
    /\ prev = <<NONE, NULL>>
    /\ slotIn = NULL
    /\ dest0 = <<>>

\* A caller invokes strlastchar_s(dest, dmax, c, lastp); the macro passes
\* destbos = BOS(dest), the object size or BOS_UNKNOWN.  The slot may hold
\* a position from earlier use.
Call ==
    /\ pc = "idle"
    /\ \E isNull \in BOOLEAN :
         /\ destNull' = isNull
         /\ IF isNull
              THEN dest' = <<>> /\ destbos' = BOS_UNKNOWN /\ bnd' = FALSE
              ELSE /\ dest' \in Buffers
                   /\ destbos' \in {BOS_UNKNOWN, Len(dest')}
                   /\ bnd' \in (IF destbos' = BOS_UNKNOWN THEN BOOLEAN ELSE {FALSE})
    /\ dmax0' \in 0..MaxDmax
    /\ dmax' = dmax0'
    /\ c' \in Char
    /\ lastpNull' \in BOOLEAN
    /\ slot' \in (IF lastpNull' THEN {NULL} ELSE {NULL, 0})
    /\ pos' = 0
    /\ ret' = NONE
    /\ reads' = {}
    /\ iters' = 0
    /\ callNo' = 1
    /\ prev' = <<NONE, NULL>>
    /\ slotIn' = slot'
    /\ dest0' = dest'
    /\ pc' = "chk_lastp"

\* The same call again: same arguments, the slot as the first call left it.
Recall ==
    /\ pc = "done"
    /\ callNo = 1
    /\ prev' = <<ret, slot>>
    /\ callNo' = 2
    /\ dmax' = dmax0
    /\ pos' = 0
    /\ ret' = NONE
    /\ reads' = {}
    /\ iters' = 0
    /\ slotIn' = slot
    /\ pc' = "chk_lastp"
    /\ UNCHANGED <<args, slot, dest0>>

\* A check macro either returns its status or falls through to `next'.
Check(at, status, next) ==
    /\ pc = at
    /\ IF status = PASS
         THEN pc' = next /\ ret' = ret
         ELSE pc' = "done" /\ ret' = status
    /\ UNCHANGED <<kept, dest, dmax, slot, pos, reads, iters>>

\* line 74
ChkSrcNull == Check("chk_lastp", CHK_SRC_NULL(lastpNull), "init_lastp")

\* Line 75 left out: the slot keeps what it held on entry.
InitLastp_Skip ==
    /\ pc = "init_lastp"
    /\ pc' = "chk_dest"
    /\ UNCHANGED <<kept, dest, dmax, slot, pos, ret, reads, iters>>

\* line 75
InitLastp ==
    /\ pc = "init_lastp"
    /\ slot' = NULL
    /\ pc' = "chk_dest"
    /\ UNCHANGED <<kept, dest, dmax, pos, ret, reads, iters>>

\* Lines 77 and 78 in the other order: dmax is tested before dest.
ChkDestNull_ZeroFirst ==
    Check("chk_dest",
          IF CHK_DMAX_ZERO(dmax) # PASS THEN CHK_DMAX_ZERO(dmax)
                                        ELSE CHK_DEST_NULL(destNull),
          "chk_zero")

\* line 77
ChkDestNull == Check("chk_dest", CHK_DEST_NULL(destNull), "chk_zero")

\* Line 78 left out: a zero dmax falls through.
ChkDmaxZero_Omitted == Check("chk_zero", PASS, "chk_bos")

\* line 78
ChkDmaxZero == Check("chk_zero", CHK_DMAX_ZERO(dmax), "chk_bos")

\* lines 79, 82
BosBranch ==
    /\ pc = "chk_bos"
    /\ pc' = IF destbos = BOS_UNKNOWN THEN "chk_max" ELSE "chk_ovr"
    /\ UNCHANGED <<kept, dest, dmax, slot, pos, ret, reads, iters>>

\* line 80
ChkDmaxMax == Check("chk_max", CHK_DMAX_MAX(dmax, RSIZE_MAX_STR), "chk_bnd")

\* line 81
BndChk == Check("chk_bnd", BND_CHK_PTR_BOUNDS(bnd, Len(dest), dmax), "scan")

\* line 83
ChkDestOvr == Check("chk_ovr", CHK_DEST_OVR(dmax, destbos), "scan")

\* Line 88 as `if (*dest == c && *lastp == NULL)': the first match is kept.
LoopBody_FirstMatch ==
    /\ pc = "scan"
    /\ \E ch \in Deref(pos) :
         /\ ch # NUL /\ dmax # 0
         /\ slot' = IF ch = c /\ slot = NULL THEN pos ELSE slot
    /\ reads' = reads \cup {pos}
    /\ pos' = pos + 1
    /\ dmax' = dmax - 1
    /\ iters' = iters + 1
    /\ UNCHANGED <<kept, dest, pc, ret>>

\* Line 86 as `while (*dest)': the budget does not stop the loop.
LoopBody_NoBudget ==
    /\ pc = "scan"
    /\ \E ch \in Deref(pos) :
         /\ ch # NUL
         /\ slot' = IF ch = c THEN pos ELSE slot
    /\ reads' = reads \cup {pos}
    /\ pos' = pos + 1
    /\ dmax' = dmax - 1
    /\ iters' = iters + 1
    /\ UNCHANGED <<kept, dest, pc, ret>>

\* Line 93 left out: the budget is never decremented.
LoopBody_NoDecrement ==
    /\ pc = "scan"
    /\ \E ch \in Deref(pos) :
         /\ ch # NUL /\ dmax # 0
         /\ slot' = IF ch = c THEN pos ELSE slot
    /\ reads' = reads \cup {pos}
    /\ pos' = pos + 1
    /\ iters' = iters + 1
    /\ UNCHANGED <<kept, dest, dmax, pc, ret>>

\* Line 88 as `if (*dest = c)': the character is overwritten with c and
\* the position recorded when c is not the terminator.
LoopBody_Assign ==
    /\ pc = "scan"
    /\ \E ch \in Deref(pos) : ch # NUL /\ dmax # 0
    /\ dest' = IF pos < Len(dest) THEN [dest EXCEPT ![pos + 1] = c] ELSE dest
    /\ slot' = IF c # NUL THEN pos ELSE slot
    /\ reads' = reads \cup {pos}
    /\ pos' = pos + 1
    /\ dmax' = dmax - 1
    /\ iters' = iters + 1
    /\ UNCHANGED <<kept, pc, ret>>

\* lines 86-93: the condition `*dest && dmax' reads *dest, holds, and the
\* body runs.
LoopBody ==
    /\ pc = "scan"
    /\ \E ch \in Deref(pos) :
         /\ ch # NUL /\ dmax # 0
         /\ slot' = IF ch = c THEN pos ELSE slot
    /\ reads' = reads \cup {pos}
    /\ pos' = pos + 1
    /\ dmax' = dmax - 1
    /\ iters' = iters + 1
    /\ UNCHANGED <<kept, dest, pc, ret>>

\* The comparison of line 88 made before the loop test, as strrchr does:
\* the character that ends the scan is compared with c too.
LoopExit_CompareFirst ==
    /\ pc = "scan"
    /\ \E ch \in Deref(pos) :
         /\ ch = NUL \/ dmax = 0
         /\ slot' = IF ch = c THEN pos ELSE slot
    /\ reads' = reads \cup {pos}
    /\ pc' = "result"
    /\ UNCHANGED <<kept, dest, dmax, pos, ret, iters>>

\* line 86: the condition `*dest && dmax' reads *dest and fails.
LoopExit ==
    /\ pc = "scan"
    /\ \E ch \in Deref(pos) : ch = NUL \/ dmax = 0
    /\ reads' = reads \cup {pos}
    /\ pc' = "result"
    /\ UNCHANGED <<kept, dest, dmax, slot, pos, ret, iters>>

\* lines 96-100
Return ==
    /\ pc = "result"
    /\ ret' = IF slot = NULL THEN ESNOTFND ELSE EOK
    /\ pc' = "done"
    /\ UNCHANGED <<kept, dest, dmax, slot, pos, reads, iters>>

\* The steps of the function body.
Step ==
    \/ ChkSrcNull
    \/ InitLastp
    \/ ChkDestNull
    \/ ChkDmaxZero
    \/ BosBranch
    \/ ChkDmaxMax
    \/ BndChk
    \/ ChkDestOvr
    \/ LoopBody
    \/ LoopExit
    \/ Return

Next == Call \/ Recall \/ Step

Spec == Init /\ [][Next]_vars

\* A call, once made, runs to its return: the function is sequential code
\* with no suspension point.
LiveSpec == Init /\ [][Next]_vars /\ WF_vars(Step)

\* ---------------------------------------------------------------------
\* Vocabulary of the properties, stated over the arguments of the call.
\* ---------------------------------------------------------------------
Min(a, b) == IF a <= b THEN a ELSE b

Max(S) == CHOOSE m \in S : \A x \in S : x <= m

HasTerm == \E i \in 1..Len(dest) : dest[i] = NUL

\* C index of the first terminator of the object; its size when it has none.
TermIdx ==
    IF HasTerm
      THEN (CHOOSE i \in 1..Len(dest) :
               dest[i] = NUL /\ \A j \in 1..(i - 1) : dest[j] # NUL) - 1
      ELSE Len(dest)

\* The characters the search is about: those below the declared maximum
\* and before the first terminator.
Limit == Min(dmax0, TermIdx)

\* The range [0, Limit) ends at the declared maximum or at a terminator
\* inside the object: the caller's dmax does not overstate an unterminated
\* object.
ScanDefined == dmax0 <= Len(dest) \/ HasTerm

\* Positions of c among the characters the search is about.
Matches == {i \in 0..(Limit - 1) : i < Len(dest) /\ dest[i + 1] = c}

\* The status the documented order of checks gives a call: the first
\* failing check, PASS when none fails.
Verdict ==
    IF lastpNull THEN ESNULLP_LASTP
    ELSE IF destNull THEN ESNULLP_DEST
    ELSE IF dmax0 = 0 THEN ESZEROL
    ELSE IF destbos = BOS_UNKNOWN
           THEN (IF dmax0 > RSIZE_MAX_STR THEN ESLEMAX
                 ELSE IF bnd /\ dmax0 > Len(dest) THEN EBOUNDS
                 ELSE PASS)
    ELSE IF dmax0 > destbos THEN EOVERFLOW
    ELSE PASS

Returned == pc = "done"

Validating ==
    pc \in {"chk_lastp", "init_lastp", "chk_dest", "chk_zero", "chk_bos",
            "chk_max", "chk_bnd", "chk_ovr"}

\* C1: a call that passes every check and has the target character among
\* the first min(dmax, terminator index) characters returns Success with
\* *lastp at the rightmost such occurrence.
C1_RightmostMatch ==
    (Returned /\ Verdict = PASS /\ ScanDefined /\ Matches # {})
        => (ret = EOK /\ slot = Max(Matches))

\* C1 witness: a returned call with two occurrences in range, the budget
\* ending the scan before the end of the object is reached.
C1_Witness ==
    /\ Returned /\ Verdict = PASS /\ ScanDefined
    /\ Cardinality(Matches) >= 2
    /\ dmax0 < Len(dest) /\ ~HasTerm
    /\ ret = EOK /\ slot = dmax0 - 1

\* C2: every position read is below the declared maximum and not beyond
\* the first terminator.
C2_ReadsBelowDmax ==
    \A i \in reads : i < dmax0 /\ (HasTerm => i <= TermIdx)

\* C3: a call that passes every check and has no target character among
\* the first min(dmax, terminator index) characters returns NotFound with
\* *lastp NULL.
C3_NotFound ==
    (Returned /\ Verdict = PASS /\ ScanDefined /\ Matches = {})
        => (ret = ESNOTFND /\ slot = NULL)

\* C3 witness: the target occurs in the object, but only after the
\* terminator or at the declared maximum or beyond.
C3_Witness ==
    /\ Returned /\ Verdict = PASS /\ ScanDefined /\ Matches = {}
    /\ \E i \in 1..Len(dest) : dest[i] = c /\ c # NUL
    /\ ret = ESNOTFND /\ slot = NULL

C5_SlotNullUnlessSuccess ==
    (Returned /\ ~lastpNull) => (slot # NULL <=> ret = EOK)

\* C5 witness: a failing call that found a stale position in the slot.
C5_Witness ==
    /\ Returned /\ ~lastpNull /\ slotIn # NULL
    /\ ret \notin {EOK, ESNOTFND} /\ slot = NULL

\* C6: no character is read while the checks run, nor by a call that a
\* check rejects; a null dest is never dereferenced.
C6_NoReadBeforeChecksPass ==
    /\ Validating => reads = {}
    /\ (callNo > 0 /\ Verdict # PASS) => reads = {}
    /\ destNull => reads = {}

\* C6 witness: a rejected call with a readable object and nothing read.
C6_Witness ==
    /\ Returned /\ ~destNull /\ ret = EOVERFLOW /\ reads = {}

\* C7: the loop is entered only with dmax nonzero, at most RSIZE_MAX_STR,
\* and at most the object size when it is known.
C7_ScanOnlyWithValidDmax ==
    pc = "scan" =>
        /\ dmax0 # 0
        /\ dmax0 <= RSIZE_MAX_STR
        /\ (destbos # BOS_UNKNOWN => dmax0 <= destbos)

\* The number of loop bodies a call can run.
IterBound == IF HasTerm THEN Limit ELSE dmax0

\* C8: every call returns; a rejected call runs no loop body, an accepted
\* one at most min(dmax, terminator index), each taking one off the
\* budget, and then reports Success or NotFound.
C8_Terminates ==
    /\ [](callNo > 0 => iters <= IterBound /\ dmax = dmax0 - iters)
    /\ []((callNo > 0 /\ Verdict # PASS) => iters = 0)
    /\ []((Returned /\ Verdict = PASS) => ret \in {EOK, ESNOTFND})
    /\ [][(pc = "scan" /\ pc' = "scan") => dmax' = dmax - 1]_vars
    /\ []((callNo > 0) => <>Returned)

\* C8 witness: a returned call whose loop used up a budget of two or more.
C8_Witness ==
    /\ Returned /\ Verdict = PASS /\ iters = dmax0 /\ dmax0 >= 2
    /\ ret \in {EOK, ESNOTFND}

\* C9: the same call made twice returns the same status and leaves the
\* same slot value, and the object is never written.
C9_Idempotent ==
    /\ callNo > 0 => dest = dest0
    /\ (Returned /\ callNo = 2 /\ (Verdict = PASS => ScanDefined))
          => (ret = prev[1] /\ slot = prev[2])

\* C9 witness: a second call that started from the position the first one
\* left in the slot and found it again.
C9_Witness ==
    /\ Returned /\ callNo = 2 /\ slotIn # NULL
    /\ ret = EOK /\ slot = prev[2] /\ dest = dest0

\* C10: a search for the terminator itself returns NotFound with *lastp
\* NULL for every object and every accepted dmax.
C10_TerminatorNeverMatched ==
    (Returned /\ Verdict = PASS /\ c = NUL) => (ret = ESNOTFND /\ slot = NULL)

\* C10 witness: the object holds a terminator in range and the search for
\* it returns NotFound.
C10_Witness ==
    /\ Returned /\ Verdict = PASS /\ c = NUL
    /\ HasTerm /\ TermIdx < dmax0
    /\ ret = ESNOTFND /\ slot = NULL
=============================================================================
